---- MODULE Spec2Model ----
(***************************************************************************)
(* A model of lspy (src/lspy/lspy.py): one run of the listing pipeline     *)
(* list_dir -> ls_long / ls_short -> prep_name -> text_header, over a      *)
(* small fixed directory tree.                                             *)
(*                                                                         *)
(* Python strings are sequences of one-character strings, so that          *)
(* str(), startswith(), string comparison and len() are computed, not      *)
(* assumed.  pathlib.Path values are sequences of components.              *)
(*                                                                         *)
(* What the run takes from its environment: the collation is POSIX (by     *)
(* code point), os.listdir returns the names in one fixed unsorted order,  *)
(* the tree does not change during a run, and owner, group and time are    *)
(* the same for every file.  The colour table (utils/constants.py) is kept *)
(* as the name of the colour class.                                        *)
(***************************************************************************)
EXTENDS Integers, Sequences, FiniteSets, TLC

VARIABLES
    args,          \* the parsed command line: long, all, sort, recursive, files
    fs,            \* the variable part of the file system (a size, a link target)
    columns,       \* shutil.get_terminal_size().columns
    pc,            \* "list_dir", "render", "done"
    idp,           \* list_dir: number of path arguments already collected
    dirs,          \* list_dir: the groups collected so far
    idf,           \* ls_long / ls_short: number of groups already rendered
    entries,       \* ls_long / ls_short: the loop's local list `entries`
    total_blocks,  \* ls_long: the block counter
    out,           \* the lines written to standard output, in order
    outcome,       \* how the run ended ("running" until it does)
    status         \* the process exit status (-1 while running)

vars == <<args, fs, columns, pc, idp, dirs, idf, entries, total_blocks, out,
          outcome, status>>

(***************************************************************************)
(* Bounds of the model.                                                    *)
(***************************************************************************)
MaxPaths == 2
MaxColumns == 13

(***************************************************************************)
(* Strings.                                                                *)
(***************************************************************************)
Digits == <<"0", "1", "2", "3", "4", "5", "6", "7", "8", "9">>

\* ord(c) for the characters that occur in the model.
Ord(c) ==
    CASE c = " " -> 32 [] c = "-" -> 45 [] c = "." -> 46 [] c = "/" -> 47
      [] c = "0" -> 48 [] c = "1" -> 49 [] c = "2" -> 50 [] c = "3" -> 51
      [] c = "4" -> 52 [] c = "5" -> 53 [] c = "6" -> 54 [] c = "7" -> 55
      [] c = "8" -> 56 [] c = "9" -> 57 [] c = ">" -> 62
      [] c = "a" -> 97 [] c = "b" -> 98 [] c = "c" -> 99 [] c = "d" -> 100
      [] c = "e" -> 101 [] c = "f" -> 102 [] c = "g" -> 103 [] c = "h" -> 104
      [] c = "l" -> 108 [] c = "n" -> 110 [] c = "r" -> 114 [] c = "s" -> 115
      [] c = "t" -> 116 [] c = "u" -> 117 [] c = "w" -> 119 [] c = "x" -> 120

Codepoints(s) == [i \in 1..Len(s) |-> Ord(s[i])]

\* str(n) for a non-negative integer.
RECURSIVE Str(_)
Str(n) == IF n < 10 THEN <<Digits[n + 1]>>
          ELSE Append(Str(n \div 10), Digits[(n % 10) + 1])

\* Lexicographic order on sequences of numbers (a proper prefix is smaller).
LexLess(a, b) ==
    \E i \in 1..(Len(b)) :
        /\ \A j \in 1..(i - 1) : j <= Len(a) /\ a[j] = b[j]
        /\ i - 1 <= Len(a)
        /\ (i <= Len(a) => a[i] < b[i])

\* Python's < on str: by code point.
PyStrLess(a, b) == LexLess(Codepoints(a), Codepoints(b))

\* locale.strxfrm under the POSIX ("C") collation: the code points.
Strxfrm(s) == Codepoints(s)

\* s.startswith('..')
StartsWithDotDot(s) == Len(s) >= 2 /\ s[1] = "." /\ s[2] = "."

\* s.startswith('.')
StartsWithDot(s) == Len(s) >= 1 /\ s[1] = "."

Min(S) == CHOOSE x \in S : \A y \in S : x <= y
Max(S) == CHOOSE x \in S : \A y \in S : x >= y

\* math.ceil(a / b) for a >= 0, b > 0.
Ceil(a, b) == (a + b - 1) \div b

(***************************************************************************)
(* list.sort(key=..., reverse=...): stable in both directions.  The list   *)
(* is given as records [key, val]; keys are compared lexicographically.    *)
(***************************************************************************)
Insert(s, e, reverse) ==
    LET Before(x, y) == IF reverse THEN LexLess(y.key, x.key)
                                   ELSE LexLess(x.key, y.key)
        later == {i \in 1..Len(s) : Before(e, s[i])}
        p == IF later = {} THEN Len(s) + 1 ELSE Min(later)
    IN  SubSeq(s, 1, p - 1) \o <<e>> \o SubSeq(s, p, Len(s))

RECURSIVE ListSort(_, _)
ListSort(s, reverse) ==
    IF s = <<>> THEN <<>>
    ELSE Insert(ListSort(SubSeq(s, 1, Len(s) - 1), reverse), s[Len(s)], reverse)

Vals(s) == [i \in 1..Len(s) |-> s[i].val]

(***************************************************************************)
(* The file system.  A node is its canonical path from the working         *)
(* directory; a path is a sequence of components as pathlib keeps them     *)
(* (Path('.') is the empty sequence, '..' is kept, never collapsed).       *)
(*                                                                         *)
(*   .            the working directory                                    *)
(*   |- d/        a, b, .h (regular), l (symbolic link), s/                *)
(*   |  `- s/     c (regular)                                              *)
(*   |- e/        an empty directory                                       *)
(*   |- f         a regular file                                           *)
(*   `- n         a character device                                       *)
(*   x            does not exist                                           *)
(***************************************************************************)
nA == <<"a">>
nB == <<"b">>
nC == <<"c">>
nD == <<"d">>
nE == <<"e">>
nF == <<"f">>
nH == <<".", "h">>
nL == <<"l">>
nN == <<"n">>
nS == <<"s">>
nX == <<"x">>
DotDot == <<".", ".">>

NoNode == <<<<"?">>>>
Up == <<DotDot>>

\* The sizes the file d/a may have, and what d/l may point at.
Sizes == {9, 10}
Targets == {nA, nX}

\* os.listdir / os.scandir of a directory node, in the order the system
\* returns the names (arbitrary, not sorted).
Listdir(node) ==
    CASE node = <<>> -> <<nN, nF, nE, nD>>
      [] node = <<nD>> -> <<nS, nB, nH, nL, nA>>
      [] node = <<nD, nS>> -> <<nC>>
      [] OTHER -> <<>>

Range(s) == {s[i] : i \in 1..Len(s)}

Kind(node) ==
    CASE node \in {<<>>, Up, <<nD>>, <<nD, nS>>, <<nE>>} -> "dir"
      [] node = <<nD, nL>> -> "lnk"
      [] node = <<nN>> -> "chr"
      [] OTHER -> "reg"

\* One step of path resolution.
Step(node, comp) ==
    IF node = NoNode \/ Kind(node) # "dir" THEN NoNode
    ELSE IF comp = DotDot THEN (IF node \in {<<>>, Up} THEN Up
                                ELSE SubSeq(node, 1, Len(node) - 1))
    ELSE IF node # Up /\ comp \in Range(Listdir(node)) THEN Append(node, comp)
    ELSE NoNode

RECURSIVE Resolve(_)
Resolve(path) ==
    IF path = <<>> THEN <<>>
    ELSE Step(Resolve(SubSeq(path, 1, Len(path) - 1)), path[Len(path)])

\* os.lstat(fn): st_mode's file type, st_size, st_nlink.
Lstat(path) ==
    LET node == Resolve(path)
        kind == Kind(node)
    IN  [kind  |-> kind,
         size  |-> CASE kind = "dir" -> 4096
                     [] kind = "lnk" -> Len(fs.target)
                     [] kind = "chr" -> 0
                     [] node = <<nD, nA>> -> fs.sizeA
                     [] node = <<nD, nB>> -> 10
                     [] node = <<nD, nH>> -> 9
                     [] node = <<nD, nS, nC>> -> 1025
                     [] OTHER -> 2048,
         nlink |-> IF kind = "dir" THEN 2 ELSE 1]

\* os.readlink(fn): the literal content of the link.
Readlink(path) == fs.target

\* Path.exists / os.path.exists: follows a final symbolic link.
Exists(path) ==
    LET node == Resolve(path)
    IN  /\ node # NoNode
        /\ Kind(node) = "lnk" =>
              Step(SubSeq(node, 1, Len(node) - 1), fs.target) # NoNode

\* Path.is_file: follows symbolic links.
IsFile(path) ==
    LET node == Resolve(path)
    IN  /\ Exists(path)
        /\ \/ Kind(node) = "reg"
           \/ /\ Kind(node) = "lnk"
              /\ Kind(Step(SubSeq(node, 1, Len(node) - 1), fs.target)) = "reg"

IsDir(path) == Resolve(path) # NoNode /\ Kind(Resolve(path)) = "dir"

\* Path.name and Path.parent.
Name(path) == IF path = <<>> THEN <<>> ELSE path[Len(path)]
Parent(path) == IF path = <<>> THEN <<>> ELSE SubSeq(path, 1, Len(path) - 1)

\* The path arguments a run may be given; the empty path is '.', the
\* default when no argument is given.
PathArgs == {<<>>, <<nD>>, <<nD, nS>>, <<nE>>, <<nF>>, <<nN>>, <<nX>>}

SelectDirs(path, names) == SelectSeq(names, LAMBDA n : IsDir(Append(path, n)))
SelectFiles(path, names) == SelectSeq(names, LAMBDA n : ~IsDir(Append(path, n)))

\* The group list_dir builds for one directory visited by os.walk.
WalkGroup(path, all) ==
    LET names == Listdir(Resolve(path))
        both == SelectDirs(path, names) \o SelectFiles(path, names)
        dirs_str == [i \in 1..Len(both) |-> Append(path, both[i])]
    IN  IF all THEN <<<<>>, Append(path, DotDot)>> \o dirs_str ELSE dirs_str

\* os.walk(top), top-down, errors ignored: the groups of top and of every
\* directory below it.  stack holds the directories still to visit.
RECURSIVE WalkFrom(_, _)
WalkFrom(stack, all) ==
    IF stack = <<>> THEN <<>>
    ELSE LET top == stack[1]
             rest == SubSeq(stack, 2, Len(stack))
         IN  IF ~IsDir(top) THEN WalkFrom(rest, all)
             ELSE LET subs == SelectDirs(top, Listdir(Resolve(top)))
                      below == [i \in 1..Len(subs) |-> Append(top, subs[i])]
                  IN  <<WalkGroup(top, all)>> \o WalkFrom(below \o rest, all)

Walk(path, all) == WalkFrom(<<path>>, all)

\* The group list_dir builds for a directory in non-recursive mode.
PlainGroup(path, all) ==
    LET names == Listdir(Resolve(path))
        children == [i \in 1..Len(names) |-> Append(path, names[i])]
    IN  IF all THEN <<Parent(path), Append(path, DotDot)>> \o children
        ELSE SelectSeq(children, LAMBDA p : ~StartsWithDot(Name(p)))

(***************************************************************************)
(* prep_name and the entries of a group.                                   *)
(***************************************************************************)
Arrow == <<" ", "-", ">", " ">>

\* A faulty prep_name: the link branch sets the colour and forgets to
\* rewrite the name.
PrepNameNoTarget(fn, filestats) ==
    LET base == IF fn = <<>> THEN <<".">> ELSE Name(fn)
        kind == filestats.kind
        rest == IF kind = "dir" THEN <<"/">> ELSE <<>>
        color == IF kind = "dir" THEN "DIR"
                 ELSE IF kind = "chr" THEN "CHR"
                 ELSE IF ~Exists(fn) THEN "MISSING"
                 ELSE IF kind = "reg" THEN "DEFAULT"
                 ELSE IF kind = "lnk" THEN "LINK"
                 ELSE "DEFAULT"
    IN  <<base \o rest, [color |-> color, name |-> base, rest |-> rest]>>

\* prep_name(fn, filestats): <<full_name, color_name>>.  The chain of
\* elif branches is first-match.  color_name, the name wrapped in the
\* colour's escape sequence, is kept as its three parts.
PrepName(fn, filestats) ==
    LET base == IF fn = <<>> THEN <<".">> ELSE Name(fn)
        kind == filestats.kind
        special == kind \in {"chr", "blk", "fifo", "sock", "door"}
        link == /\ kind # "dir" /\ ~special /\ Exists(fn)
                /\ kind # "reg" /\ kind = "lnk"
        fn_name == IF link THEN base \o Arrow \o Readlink(fn) ELSE base
        rest == IF kind = "dir" THEN <<"/">> ELSE <<>>
        color == IF kind = "dir" THEN "DIR"
                 ELSE IF kind = "chr" THEN "CHR"
                 ELSE IF kind = "blk" THEN "BLK"
                 ELSE IF kind = "fifo" THEN "FIFO"
                 ELSE IF kind = "sock" THEN "SOCK"
                 ELSE IF kind = "door" THEN "DOOR"
                 ELSE IF ~Exists(fn) THEN "MISSING"
                 ELSE IF kind = "reg" THEN "DEFAULT"
                 ELSE IF kind = "lnk" THEN "LINK"
                 ELSE "DEFAULT"
    IN  <<fn_name \o rest, [color |-> color, name |-> fn_name, rest |-> rest]>>

\* stat.filemode(st_mode): the type character and nine permission characters.
FileMode(kind) ==
    CASE kind = "dir" -> <<"d", "r", "w", "x", "r", "-", "x", "r", "-", "x">>
      [] kind = "lnk" -> <<"l", "r", "w", "x", "r", "w", "x", "r", "w", "x">>
      [] kind = "chr" -> <<"c", "r", "w", "-", "r", "w", "-", "r", "w", "-">>
      [] OTHER -> <<"-", "r", "w", "-", "r", "-", "-", "r", "-", "-">>

\* Owner and group names and the formatted time are the same for every file
\* of the tree.
Owner == <<"u">>
Group == <<"g">>
Time == <<"t">>

\* long_entry = [mode, nlink, owner, group, size, time, fn_name, color_name]
LongFields(filestats, pn) ==
    <<FileMode(filestats.kind), Str(filestats.nlink), Owner, Group,
      Str(filestats.size), Time, pn[1], pn[2]>>

LongStat(fn, filestats) == LongFields(filestats, PrepName(fn, filestats))

LongEntry(fn) == LongStat(fn, Lstat(fn))

\* short_entry = [size, fn_name, color_name]
ShortFields(filestats, pn) == <<Str(filestats.size), pn[1], pn[2]>>

ShortStat(fn, filestats) == ShortFields(filestats, PrepName(fn, filestats))

ShortEntry(fn) == ShortStat(fn, Lstat(fn))

\* total_blocks += math.ceil(st_size / 1024), over the files of one group.
BlockSize == 1024
RECURSIVE AddBlocks(_, _)
AddBlocks(tb, files) ==
    IF files = <<>> THEN tb
    ELSE AddBlocks(tb + Ceil(Lstat(files[1]).size, BlockSize),
                   SubSeq(files, 2, Len(files)))

(***************************************************************************)
(* Ordering of a group (the same three statements in ls_long and ls_short).*)
(***************************************************************************)
\* A faulty name sort: reverse=True.
NameSortedReversed(es) ==
    Vals(ListSort([i \in 1..Len(es) |->
                     [key |-> Strxfrm(es[i][Len(es[i]) - 1]), val |-> es[i]]],
                  TRUE))

\* entries.sort(key=lambda x: locale.strxfrm(x[-2]))
NameSorted(es) ==
    Vals(ListSort([i \in 1..Len(es) |->
                     [key |-> Strxfrm(es[i][Len(es[i]) - 1]), val |-> es[i]]],
                  FALSE))

\* entries.sort(key=lambda x: x[k], reverse=True); x[k] is str(st_size)
SizeSorted(es, k) ==
    Vals(ListSort([i \in 1..Len(es) |->
                     [key |-> Codepoints(es[i][k]), val |-> es[i]]],
                  TRUE))

\* entries[0], entries[1] = entries[1], entries[0]
SwapFirstTwo(es) ==
    [i \in 1..Len(es) |-> IF i = 1 THEN es[2] ELSE IF i = 2 THEN es[1] ELSE es[i]]

\* if args.recursive and entries[0][1].startswith('..'): swap
\* Python's entries[0][1] is es[1][2] here.
Reordered(es) ==
    IF ~args.recursive THEN [raised |-> "none", entries |-> es]
    ELSE IF Len(es) < 1 THEN [raised |-> "IndexError", entries |-> es]
    ELSE IF ~StartsWithDotDot(es[1][2]) THEN [raised |-> "none", entries |-> es]
    ELSE IF Len(es) < 2 THEN [raised |-> "IndexError", entries |-> es]
    ELSE [raised |-> "none", entries |-> SwapFirstTwo(es)]

\* if args.sort: the size sort; sizeAt is the position of the size field
\* in an entry (x[4] in ls_long, x[0] in ls_short).
SizeStage(r, sizeAt) ==
    IF r.raised = "none" /\ args.sort
    THEN [raised |-> "none", entries |-> SizeSorted(r.entries, sizeAt)]
    ELSE r

\* The name sort, the swap and the size sort.
Ordered(raw, sizeAt) == SizeStage(Reordered(NameSorted(raw)), sizeAt)

(***************************************************************************)
(* Output lines.                                                           *)
(***************************************************************************)
Spaces(n) == [i \in 1..n |-> " "]

\* s.rjust(w)
Rjust(s, w) == IF Len(s) >= w THEN s ELSE Spaces(w - Len(s)) \o s

\* text_header(args, files, idf): the header line, if one is printed.
\* i is the group's position counted from 1.
TextHeader(files, i) ==
    IF args.recursive
    THEN <<[t |-> "header", label |-> Parent(files[Len(files)])]>>
    ELSE IF Len(args.files) > 1
         THEN <<[t |-> "header", label |-> args.files[i]]>>
         ELSE <<>>

Raised(exception, es, tb) ==
    [raised |-> exception, entries |-> es, total_blocks |-> tb, lines |-> <<>>]

\* column_widths of ls_long: the longest string of each of the six fields.
LongWidths(es) == [c \in 1..6 |-> Max({Len(es[j][c]) : j \in 1..Len(es)})]

LongRow(e, i, column_widths) ==
    [t |-> "row", group |-> i,
     fields |-> [c \in 1..6 |-> Rjust(e[c], column_widths[c])],
     cells |-> <<e[8]>>]

\* ls_long from text_header on: header, total, one line per entry, a blank.
LongPrint(files, i, es, tb, column_widths) ==
    [raised |-> "none", entries |-> es, total_blocks |-> tb,
     lines |-> TextHeader(files, i)
               \o <<[t |-> "total", group |-> i, n |-> tb]>>
               \o [j \in 1..Len(es) |-> LongRow(es[j], i, column_widths)]
               \o <<[t |-> "blank"]>>]

\* ls_long after the ordering: len(entries[0]) fails on an empty group.
LongLayout(files, i, o, tb) ==
    IF o.raised # "none" THEN Raised(o.raised, o.entries, tb)
    ELSE IF Len(o.entries) < 1 THEN Raised("IndexError", o.entries, tb)
    ELSE LongPrint(files, i, o.entries, tb, LongWidths(o.entries))

\* One iteration of ls_long's loop over the groups.
LsLongGroup(files, i, tb) ==
    LongLayout(files, i,
               Ordered([j \in 1..Len(files) |-> LongEntry(files[j])], 5),
               AddBlocks(tb, files))

\* grouped_rows[idxr % num_rows].append(r): the positions of each row's entries.
GroupedRows(n, num_rows) ==
    [r \in 1..num_rows |->
        SelectSeq([j \in 1..n |-> j], LAMBDA j : (j - 1) % num_rows = r - 1)]

ShortRow(es, i, column_widths, bucket) ==
    [t |-> "row", group |-> i,
     cells |-> [c \in 1..Len(bucket) |-> es[bucket[c]][3]],
     pads |-> [c \in 1..Len(bucket) |-> column_widths - Len(es[bucket[c]][2])]]

\* ls_short from text_header on: header, the rows of the grid, a blank.
ShortPrint(files, i, es, column_widths, grouped_rows) ==
    [raised |-> "none", entries |-> es, total_blocks |-> 0,
     lines |-> TextHeader(files, i)
               \o [r \in 1..Len(grouped_rows) |->
                     ShortRow(es, i, column_widths, grouped_rows[r])]
               \o <<[t |-> "blank"]>>]

\* num_rows = math.ceil(len(entries) / num_cols) divides by zero when no
\* column fits.
ShortGrid(files, i, es, column_widths, num_cols) ==
    IF num_cols = 0 THEN Raised("ZeroDivisionError", es, 0)
    ELSE ShortPrint(files, i, es, column_widths,
                    GroupedRows(Len(es), Ceil(Len(es), num_cols)))

\* column_widths of ls_short: the longest fn_name.
ShortWidth(es) == Max({Len(es[j][2]) : j \in 1..Len(es)})

ShortColumns(files, i, es, column_widths) ==
    ShortGrid(files, i, es, column_widths, columns \div column_widths)

\* ls_short after the ordering: max() of an empty group raises ValueError.
ShortLayout(files, i, o) ==
    IF o.raised # "none" THEN Raised(o.raised, o.entries, 0)
    ELSE IF Len(o.entries) < 1 THEN Raised("ValueError", o.entries, 0)
    ELSE ShortColumns(files, i, o.entries, ShortWidth(o.entries))

\* One iteration of ls_short's loop over the groups.
LsShortGroup(files, i) ==
    ShortLayout(files, i,
                Ordered([j \in 1..Len(files) |-> ShortEntry(files[j])], 1))

(***************************************************************************)
(* The run.                                                                *)
(***************************************************************************)
PathLists == UNION {[1..n -> PathArgs] : n \in 1..MaxPaths}
Widths == {4, MaxColumns}

NotFoundMessage == [t |-> "message", text |-> "Specified path does not exist."]
StrerrorLine == [t |-> "strerror"]

Init ==
    /\ args \in [long : BOOLEAN, all : BOOLEAN, sort : BOOLEAN,
                 recursive : BOOLEAN, files : PathLists]
    /\ fs \in [sizeA : Sizes, target : Targets]
    /\ columns \in Widths
    /\ pc = "list_dir"
    /\ idp = 0
    /\ dirs = <<>>
    /\ idf = 0
    /\ entries = <<>>
    /\ total_blocks = 0
    /\ out = <<>>
    /\ outcome = "running"
    /\ status = -1

InListDir == pc = "list_dir" /\ idp < Len(args.files)
path == args.files[idp + 1]

\* A faulty list_dir: the message is printed and the loop goes on to the
\* next path (no sys.exit()).
ListDirMissingNoExit ==
    /\ InListDir
    /\ ~Exists(path)
    /\ out' = Append(out, NotFoundMessage)
    /\ idp' = idp + 1
    /\ UNCHANGED <<args, fs, columns, pc, dirs, idf, entries, total_blocks,
                   outcome, status>>

\* list_dir: the path does not exist; print the message and sys.exit().
ListDirMissing ==
    /\ InListDir
    /\ ~Exists(path)
    /\ out' = Append(out, NotFoundMessage)
    /\ pc' = "done"
    /\ outcome' = "notfound"
    /\ status' = 0
    /\ UNCHANGED <<args, fs, columns, idp, dirs, idf, entries, total_blocks>>

\* list_dir: the path is a file; its group is the path alone.
ListDirFile ==
    /\ InListDir
    /\ Exists(path)
    /\ IsFile(path)
    /\ dirs' = Append(dirs, <<path>>)
    /\ idp' = idp + 1
    /\ UNCHANGED <<args, fs, columns, pc, idf, entries, total_blocks, out,
                   outcome, status>>

\* list_dir, recursive: one group per directory os.walk visits.
ListDirWalk ==
    /\ InListDir
    /\ Exists(path)
    /\ ~IsFile(path)
    /\ args.recursive
    /\ dirs' = dirs \o Walk(path, args.all)
    /\ idp' = idp + 1
    /\ UNCHANGED <<args, fs, columns, pc, idf, entries, total_blocks, out,
                   outcome, status>>

\* list_dir, not recursive: os.listdir(path), then dirs[idp] is given the
\* two pseudo-entries or loses its hidden names.
ListDirPlain ==
    /\ InListDir
    /\ Exists(path)
    /\ ~IsFile(path)
    /\ ~args.recursive
    /\ IsDir(path)
    /\ dirs' = [Append(dirs, <<>>) EXCEPT ![idp + 1] = PlainGroup(path, args.all)]
    /\ idp' = idp + 1
    /\ UNCHANGED <<args, fs, columns, pc, idf, entries, total_blocks, out,
                   outcome, status>>

\* list_dir, not recursive: os.listdir(path) raises OSError (the path is
\* not a directory); lspy catches it and prints e.strerror.
ListDirError ==
    /\ InListDir
    /\ Exists(path)
    /\ ~IsFile(path)
    /\ ~args.recursive
    /\ ~IsDir(path)
    /\ out' = Append(out, StrerrorLine)
    /\ pc' = "done"
    /\ outcome' = "oserror"
    /\ status' = 0
    /\ UNCHANGED <<args, fs, columns, idp, dirs, idf, entries, total_blocks>>

\* list_dir returns dirs.
ListDirReturn ==
    /\ pc = "list_dir"
    /\ idp = Len(args.files)
    /\ pc' = "render"
    /\ UNCHANGED <<args, fs, columns, idp, dirs, idf, entries, total_blocks,
                   out, outcome, status>>

\* ls_long: one group.  An exception that is not an OSError leaves lspy
\* uncaught: nothing more is written and the exit status is 1.
LsLong ==
    /\ pc = "render"
    /\ args.long
    /\ idf < Len(dirs)
    /\ \E r \in {LsLongGroup(dirs[idf + 1], idf + 1, total_blocks)} :
           /\ entries' = r.entries
           /\ total_blocks' = r.total_blocks
           /\ out' = out \o r.lines
           /\ IF r.raised = "none"
              THEN idf' = idf + 1 /\ UNCHANGED <<pc, outcome, status>>
              ELSE /\ pc' = "done"
                   /\ outcome' = "uncaught"
                   /\ status' = 1
                   /\ UNCHANGED idf
    /\ UNCHANGED <<args, fs, columns, idp, dirs>>

\* ls_short: one group.
LsShort ==
    /\ pc = "render"
    /\ ~args.long
    /\ idf < Len(dirs)
    /\ \E r \in {LsShortGroup(dirs[idf + 1], idf + 1)} :
           /\ entries' = r.entries
           /\ out' = out \o r.lines
           /\ IF r.raised = "none"
              THEN idf' = idf + 1 /\ UNCHANGED <<pc, outcome, status>>
              ELSE /\ pc' = "done"
                   /\ outcome' = "uncaught"
                   /\ status' = 1
                   /\ UNCHANGED idf
    /\ UNCHANGED <<args, fs, columns, idp, dirs, total_blocks>>

\* Every group is rendered; lspy returns.
Finish ==
    /\ pc = "render"
    /\ idf = Len(dirs)
    /\ pc' = "done"
    /\ outcome' = "rendered"
    /\ status' = 0
    /\ UNCHANGED <<args, fs, columns, idp, dirs, idf, entries, total_blocks, out>>

Next ==
    \/ ListDirMissing
    \/ ListDirFile
    \/ ListDirWalk
    \/ ListDirPlain
    \/ ListDirError
    \/ ListDirReturn
    \/ LsLong
    \/ LsShort
    \/ Finish

Spec == Init /\ [][Next]_vars

(***************************************************************************)
(* Vocabulary of the properties.                                           *)
(***************************************************************************)
\* The loop has rendered group idf and `entries` is that group's list.
Rendered == idf >= 1 /\ outcome # "uncaught"

EntryName(e) == e[Len(e) - 1]
EntryColor(e) == e[Len(e)]

\* int(s) for a string of digits.
RECURSIVE ParseInt(_)
ParseInt(s) ==
    IF s = <<>> THEN 0
    ELSE 10 * ParseInt(SubSeq(s, 1, Len(s) - 1)) + (Ord(s[Len(s)]) - 48)

\* The byte size an entry shows.
EntrySize(e) == ParseInt(IF args.long THEN e[5] ELSE e[1])

\* Display name a collates strictly below display name b.
CollatesBelow(a, b) == LexLess(Strxfrm(a), Strxfrm(b))

Ascending(es) ==
    \A i, j \in 1..Len(es) :
        i < j => ~CollatesBelow(EntryName(es[j]), EntryName(es[i]))

\* Sum over the files of a group of ceil(size / 1024).
RECURSIVE GroupBlocks(_)
GroupBlocks(files) ==
    IF files = <<>> THEN 0
    ELSE GroupBlocks(SubSeq(files, 1, Len(files) - 1))
         + Ceil(Lstat(files[Len(files)]).size, 1024)

\* The entries of a group as its format builds them, and as the name
\* ordering (the name sort and the exchange) leaves them.
RawEntries(files) ==
    [j \in 1..Len(files) |->
        IF args.long THEN LongEntry(files[j]) ELSE ShortEntry(files[j])]
NameOrdered(files) == Reordered(NameSorted(RawEntries(files))).entries
Position(es, e) == CHOOSE k \in 1..Len(es) : es[k] = e
Names(es) == [k \in 1..Len(es) |-> EntryName(es[k])]

Missing(i) == ~Exists(args.files[i])
SomeMissing == \E i \in 1..Len(args.files) : Missing(i)

ListingLines == {k \in 1..Len(out) : out[k].t \in {"header", "total", "row"}}

\* The rows written for group g.
RowsOf(g) == SelectSeq(out, LAMBDA ln : ln.t = "row" /\ ln.group = g)

\* The symbolic links of the group just rendered, and how one is shown.
ShownAsLink(fn) ==
    \E k \in 1..Len(entries) :
        /\ EntryName(entries[k]) = Name(fn) \o Arrow \o Readlink(fn)
        /\ EntryColor(entries[k]).color = "LINK"

ShownAsMissing(fn) ==
    \E k \in 1..Len(entries) :
        /\ EntryName(entries[k]) = Name(fn)
        /\ EntryColor(entries[k]).color = "MISSING"

Links == {j \in 1..Len(dirs[idf]) : Lstat(dirs[idf][j]).kind = "lnk"}

\* A group that is a single file given as an argument.
FileGroup(g) == Len(g) = 1 /\ g[1] \in Range(args.files) /\ IsFile(g[1])

\* The directory a group lists.
DirOf(i) == IF args.recursive THEN Parent(dirs[i][Len(dirs[i])])
            ELSE args.files[i]

DisplayName(p) == PrepName(p, Lstat(p))[1]

Occurrences(g, name) ==
    Cardinality({k \in 1..Len(g) : DisplayName(g[k]) = name})

(***************************************************************************)
(* C1.  In long format the number on every group's total line is the sum,  *)
(* over the entries of that group only, of ceil(size / 1024).              *)
(***************************************************************************)
C1_TotalIsGroupSum ==
    \A k \in 1..Len(out) :
        out[k].t = "total" => out[k].n = GroupBlocks(dirs[out[k].group])

(***************************************************************************)
(* C2.  With the size sort requested, the entries of every group are in    *)
(* descending order of their numeric byte size, and entries of equal size  *)
(* keep the relative order the name ordering gave them.                    *)
(***************************************************************************)
C2_SizeDescending ==
    (args.sort /\ Rendered) =>
        \A i, j \in 1..Len(entries) :
            i < j =>
                /\ EntrySize(entries[i]) >= EntrySize(entries[j])
                /\ EntrySize(entries[i]) = EntrySize(entries[j])
                   => Position(NameOrdered(dirs[idf]), entries[i])
                      < Position(NameOrdered(dirs[idf]), entries[j])

(***************************************************************************)
(* C3.  Without the size sort, the entries of every group, in every mode,  *)
(* are in ascending collated order of their display names.                 *)
(***************************************************************************)
C3_NameAscending == (~args.sort /\ Rendered) => Ascending(entries)

\* C3 as amended: without the size sort the entries of every group are in
\* ascending collated order of their display names, except that in
\* recursive short format the first two entries are exchanged when the
\* name printed second starts with '..'.
C3_NameAscendingUpToSwap ==
    (~args.sort /\ Rendered) =>
        \/ Ascending(entries)
        \/ /\ ~args.long
           /\ args.recursive
           /\ Len(entries) >= 2
           /\ StartsWithDotDot(EntryName(entries[2]))
           /\ Ascending(SwapFirstTwo(entries))

\* A recursive short listing of a group of at least three entries whose
\* first two were exchanged.
C3_Witness ==
    /\ ~args.sort
    /\ Rendered
    /\ ~args.long
    /\ args.recursive
    /\ Len(entries) >= 3
    /\ StartsWithDotDot(EntryName(entries[2]))
    /\ ~Ascending(entries)

(***************************************************************************)
(* C4.  In short format, for every non-empty group and every terminal      *)
(* width, the layout is computed without failure with max(1, W div L)      *)
(* columns and ceil(n / columns) rows, every entry is in exactly one cell  *)
(* and no row holds more than the column count.                            *)
(***************************************************************************)
C4_ShortGrid ==
    ~args.long =>
        /\ outcome = "uncaught" => dirs[idf + 1] = <<>>
        /\ Rendered =>
             LET n == Len(entries)
                 L == Max({Len(EntryName(entries[j])) : j \in 1..n})
                 cols == Max({1, columns \div L})
                 rows == RowsOf(idf)
             IN  /\ Len(rows) = Ceil(n, cols)
                 /\ \A r \in 1..Len(rows) : Len(rows[r].cells) <= cols
                 /\ \A j \in 1..n :
                      Cardinality({<<r, c>> \in (1..Len(rows)) \X (1..n) :
                                     /\ c <= Len(rows[r].cells)
                                     /\ rows[r].cells[c] = EntryColor(entries[j])})
                      = 1

(***************************************************************************)
(* C5.  If any path argument does not exist, wherever it stands among the  *)
(* arguments, the run prints 'Specified path does not exist.' and no       *)
(* header, total or entry row.                                             *)
(***************************************************************************)
C5_MissingPathMessage ==
    SomeMissing =>
        /\ ListingLines = {}
        /\ pc = "done" => out = <<NotFoundMessage>>

\* C5 as amended: if any path argument does not exist the run prints no
\* header, total or entry row, and it prints 'Specified path does not
\* exist.' unless collecting an earlier argument fails with an access
\* error, whose description is then all that is printed.
C5_MissingPathNoListing ==
    SomeMissing =>
        /\ ListingLines = {}
        /\ pc = "done" =>
             \/ out = <<NotFoundMessage>> /\ outcome = "notfound"
             \/ /\ out = <<StrerrorLine>>
                /\ outcome = "oserror"
                /\ \A i \in 1..(idp + 1) : ~Missing(i)

\* The missing path is the second argument, after an existing one.
C5_Witness ==
    /\ pc = "done"
    /\ Len(args.files) = 2
    /\ ~Missing(1)
    /\ Missing(2)
    /\ out = <<NotFoundMessage>>

(***************************************************************************)
(* C6.  When a path argument is missing the exit status is not zero; when  *)
(* every path exists and no access error occurs it is zero.                *)
(***************************************************************************)
C6_ExitStatus ==
    pc = "done" =>
        /\ SomeMissing => status # 0
        /\ (~SomeMissing /\ outcome # "oserror") => status = 0

(***************************************************************************)
(* C7.  Every symbolic link, whether its target exists or not, has the     *)
(* display name '<name> -> <target>' and the link colour class.            *)
(***************************************************************************)
C7_SymlinkName ==
    Rendered => \A j \in Links : ShownAsLink(dirs[idf][j])

\* C7 as amended: a symbolic link whose target exists has the display name
\* '<name> -> <target>' and the link colour class; a dangling one keeps its
\* plain name and gets the missing colour class.
C7_SymlinkNameIfTargetExists ==
    Rendered =>
        \A j \in Links :
            IF Exists(dirs[idf][j]) THEN ShownAsLink(dirs[idf][j])
            ELSE ShownAsMissing(dirs[idf][j])

\* A rendered group that holds a symbolic link whose target exists.
C7_Witness ==
    /\ Rendered
    /\ \E j \in Links : Exists(dirs[idf][j]) /\ ShownAsLink(dirs[idf][j])

(***************************************************************************)
(* C8.  Directory groups, recursive or not: without showHidden no group    *)
(* holds a child whose name starts with '.' nor a pseudo-entry; with       *)
(* showHidden every directory group holds '.' and '..' and every child of  *)
(* the directory, hidden ones included, each exactly once.                 *)
(***************************************************************************)
C8_HiddenToggle ==
    \A i \in 1..Len(dirs) :
        ~FileGroup(dirs[i]) =>
            IF ~args.all
            THEN \A k \in 1..Len(dirs[i]) : ~StartsWithDot(Name(dirs[i][k]))
            ELSE /\ Occurrences(dirs[i], <<".", "/">>) = 1
                 /\ Occurrences(dirs[i], <<".", ".", "/">>) = 1
                 /\ \A n \in Range(Listdir(Resolve(DirOf(i)))) :
                      Cardinality({k \in 1..Len(dirs[i]) :
                                     dirs[i][k] = Append(DirOf(i), n)}) = 1

(***************************************************************************)
(* C9.  The exchange of the first two entries is the same in both formats: *)
(* in recursive mode, after the name sort, they are exchanged exactly when *)
(* the first display name starts with '..', so a group is listed in the    *)
(* same order by the long and by the short format.                         *)
(***************************************************************************)
C9_SameOrderBothFormats ==
    Rendered =>
        /\ Names(entries)
           = Names(Ordered([j \in 1..Len(dirs[idf]) |->
                              IF args.long THEN ShortEntry(dirs[idf][j])
                              ELSE LongEntry(dirs[idf][j])],
                           IF args.long THEN 1 ELSE 5).entries)
        /\ (args.recursive /\ ~args.sort /\ Len(entries) >= 2) =>
             LET sorted == NameSorted(RawEntries(dirs[idf]))
             IN  (entries = SwapFirstTwo(sorted))
                 <=> StartsWithDotDot(EntryName(sorted[1]))

(***************************************************************************)
(* C10.  A run ends in exactly one of three ways: every group rendered,    *)
(* the missing-path message, or the system's description of an access      *)
(* error; never with an uncaught exception.                                *)
(***************************************************************************)
C10_EndsAsDocumented ==
    pc = "done" => outcome \in {"rendered", "notfound", "oserror"}
====
